---- MODULE Spec2Model ----
(***************************************************************************)
(* A model of mopyregtest.RegressionTest (modelicaregressiontest.py): the  *)
(* result-folder bookkeeping (ensure / cleanup), the import+simulate       *)
(* pipeline of compare_result, the metadata extraction from the tool log   *)
(* and the in-place templating of the .mos scripts.                        *)
(*                                                                         *)
(* Text (file contents, lines, tokens, answers) is a sequence of           *)
(* one-character strings, so that replace / strip / split are computed     *)
(* character by character as Python computes them.                         *)
(***************************************************************************)
EXTENDS Integers, Sequences, FiniteSets, TLC

(***************************************************************************)
(* Python str primitives                                                   *)
(***************************************************************************)

\* s.startswith(k, i-1): k occurs in s at position i
OccursAt(s, k, i) ==
    /\ i >= 1
    /\ i + Len(k) - 1 <= Len(s)
    /\ SubSeq(s, i, i + Len(k) - 1) = k

\* The least element of a non-empty set of positions
Least(S) == CHOOSE m \in S : \A j \in S : m <= j

\* k in s
Contains(s, k) == \E i \in 1..(Len(s) + 1) : OccursAt(s, k, i)

\* The matches str.replace(k, v) substitutes, scanning from position i:
\* leftmost first, non-overlapping. An empty k matches before every character
\* and at the end.
RECURSIVE MatchFrom(_, _, _)
MatchFrom(s, k, i) ==
    LET occ == {j \in i..(Len(s) + 1) : OccursAt(s, k, j)} IN
    IF occ = {} THEN <<>>
    ELSE LET m == Least(occ) IN
         <<m>> \o MatchFrom(s, k, m + (IF k = <<>> THEN 1 ELSE Len(k)))

\* A scan that stops after the first match (str.replace(k, v, 1))
MatchStartsFirstOnly(s, k) ==
    LET all == MatchFrom(s, k, 1) IN IF all = <<>> THEN <<>> ELSE <<Head(all)>>

\* The start positions of the matches of k in s that str.replace substitutes
MatchStarts(s, k) == MatchFrom(s, k, 1)

\* s with the klen characters at each position of starts replaced by ins; s may
\* be the text itself or a sequence that runs parallel to it
RECURSIVE SpliceFrom(_, _, _, _, _)
SpliceFrom(s, starts, klen, ins, i) ==
    IF starts = <<>> THEN SubSeq(s, i, Len(s))
    ELSE SubSeq(s, i, Head(starts) - 1) \o ins
            \o SpliceFrom(s, Tail(starts), klen, ins, Head(starts) + klen)

\* contents.replace(k, v)
StrReplace(s, k, v) == SpliceFrom(s, MatchStarts(s, k), Len(k), v, 1)

\* One iteration of the loop of _replace_in_file, on the contents together
\* with two ghost fields: origin[i] is 0 for a character of the file as it was
\* read and n for a character inserted as the value of the n-th item; altered
\* records that some match covered a character inserted by an earlier item.
ReplaceStep(st, k, v, n) ==
    LET ms == MatchStarts(st.contents, k) IN
    [contents |-> StrReplace(st.contents, k, v),
     origin   |-> SpliceFrom(st.origin, ms, Len(k), [j \in 1..Len(v) |-> n], 1),
     altered  |-> \/ st.altered
                  \/ \E m \in 1..Len(ms) :
                       \E j \in ms[m]..(ms[m] + Len(k) - 1) : st.origin[j] # 0]

\* The loop of _replace_in_file: for k, v in repl_dict.items(): contents =
\* contents.replace(k, v). A dict is the sequence of its <<key, value>> items
\* in insertion order; n is the number of the first item of items.
\* A loop that returns after its first iteration
ReplaceItemsFirstOnly(st, items, n) ==
    IF items = <<>> THEN st
    ELSE ReplaceStep(st, Head(items)[1], Head(items)[2], n)

RECURSIVE ReplaceItems(_, _, _)
ReplaceItems(st, items, n) ==
    IF items = <<>> THEN st
    ELSE ReplaceItems(ReplaceStep(st, Head(items)[1], Head(items)[2], n),
                      Tail(items), n + 1)

\* The state of _replace_in_file after fhandle.read()
ReadContents(contents) ==
    [contents |-> contents, origin |-> [i \in 1..Len(contents) |-> 0], altered |-> FALSE]

\* _replace_in_file(filename, repl_dict): the contents written back to the file
_replace_in_file(contents, repl_dict) ==
    ReplaceItems(ReadContents(contents), repl_dict, 1).contents

\* dict[key] = value: a new key goes last, an old key keeps its place
DictSet(d, key, value) ==
    IF \E i \in 1..Len(d) : d[i][1] = key
    THEN [i \in 1..Len(d) |-> IF d[i][1] = key THEN <<key, value>> ELSE d[i]]
    ELSE Append(d, <<key, value>>)

\* readlines(): the lines of a text, each with its "\n" when it has one
RECURSIVE ReadLinesFrom(_, _)
ReadLinesFrom(s, i) ==
    LET ends == {j \in i..Len(s) : s[j] = "\n"} IN
    IF i > Len(s) THEN <<>>
    ELSE IF ends = {} THEN <<SubSeq(s, i, Len(s))>>
    ELSE <<SubSeq(s, i, Least(ends))>> \o ReadLinesFrom(s, Least(ends) + 1)

readlines(s) == ReadLinesFrom(s, 1)

\* s.lstrip(c): every leading c removed
RECURSIVE lstrip(_, _)
lstrip(s, chars) ==
    IF s # <<>> /\ Head(s) \in chars THEN lstrip(Tail(s), chars) ELSE s

\* s.rstrip(c): every trailing c removed
RECURSIVE rstrip(_, _)
rstrip(s, chars) ==
    IF s # <<>> /\ s[Len(s)] \in chars THEN rstrip(SubSeq(s, 1, Len(s) - 1), chars) ELSE s

\* s.split(sep) for a one-character sep: always at least one field
RECURSIVE SplitFrom(_, _, _)
SplitFrom(s, sep, i) ==
    LET seps == {j \in i..Len(s) : s[j] = sep} IN
    IF seps = {} THEN <<SubSeq(s, i, Len(s))>>
    ELSE <<SubSeq(s, i, Least(seps) - 1)>> \o SplitFrom(s, sep, Least(seps) + 1)

\* A split that keeps the first five fields and drops the rest
splitAtMostFive(s, sep) ==
    LET all == SplitFrom(s, sep, 1) IN
    IF Len(all) > 5 THEN SubSeq(all, 1, 5) ELSE all

split(s, sep) == SplitFrom(s, sep, 1)

\* str.strip(): leading and trailing whitespace removed
Whitespace == {" ", "\t", "\n"}
strip(s) == rstrip(lstrip(s, Whitespace), Whitespace)

\* str.lower() on the letters the answers are written in
LowerChar(c) ==
    CASE c = "Y" -> "y" [] c = "E" -> "e" [] c = "S" -> "s"
      [] c = "N" -> "n" [] c = "O" -> "o" [] OTHER -> c
lower(s) == [i \in 1..Len(s) |-> LowerChar(s[i])]

\* n copies of character c
Repeat(c, n) == [i \in 1..n |-> c]

(***************************************************************************)
(* RegressionTest._ask_confirmation                                        *)
(***************************************************************************)
YES == <<"y", "e", "s">>
NO == <<"n", "o">>

\* The loop of _ask_confirmation from iteration q on; answers is what input()
\* returns, call after call. The result holds the answer ("True", "False", or
\* "None" when the function raises ValueError) and the number of prompts.
\* A loop without the two break statements: every answer is read and the
\* last understood one counts
AskFromNoBreak(answers, max_asks, q) ==
    LET valid == {i \in (q + 1)..max_asks : lower(strip(answers[i])) \in {YES, NO}} IN
    IF valid = {} THEN [answer |-> "None", asked |-> IF q >= max_asks THEN q ELSE max_asks]
    ELSE LET i == CHOOSE j \in valid : \A h \in valid : h <= j IN
         [answer |-> IF lower(strip(answers[i])) = YES THEN "True" ELSE "False",
          asked |-> max_asks]

RECURSIVE AskFrom(_, _, _)
AskFrom(answers, max_asks, q) ==
    IF q >= max_asks THEN [answer |-> "None", asked |-> q]
    ELSE LET answer_as_str == answers[q + 1] IN
         IF lower(strip(answer_as_str)) = YES THEN [answer |-> "True", asked |-> q + 1]
         ELSE IF lower(strip(answer_as_str)) = NO THEN [answer |-> "False", asked |-> q + 1]
         ELSE AskFrom(answers, max_asks, q + 1)

\* A confirmation that takes anything but "no" for a yes
_ask_confirmation_lenient(answers, max_asks) ==
    IF max_asks = 0 THEN [answer |-> "None", asked |-> 0]
    ELSE IF lower(strip(answers[1])) = NO THEN [answer |-> "False", asked |-> 1]
    ELSE [answer |-> "True", asked |-> 1]

_ask_confirmation(answers, max_asks) == AskFrom(answers, max_asks, 0)

\* The default of max_asks
DefaultMaxAsks == 5

(***************************************************************************)
(* The texts of the program                                                *)
(***************************************************************************)
PACKAGE_FOLDER == <<"P", "A", "C", "K", "A", "G", "E", "_", "F", "O", "L", "D", "E", "R">>
RESULT_FOLDER == <<"R", "E", "S", "U", "L", "T", "_", "F", "O", "L", "D", "E", "R">>
MODEL_IN_PACKAGE == <<"M", "O", "D", "E", "L", "_", "I", "N", "_", "P", "A", "C", "K", "A", "G", "E">>
SIMULATION_BINARY == <<"S", "I", "M", "U", "L", "A", "T", "I", "O", "N", "_", "B", "I", "N", "A", "R", "Y">>
START_TIME == <<"S", "T", "A", "R", "T", "_", "T", "I", "M", "E">>
STOP_TIME == <<"S", "T", "O", "P", "_", "T", "I", "M", "E">>
TOLERANCE == <<"T", "O", "L", "E", "R", "A", "N", "C", "E">>
NUM_INTERVALS == <<"N", "U", "M", "_", "I", "N", "T", "E", "R", "V", "A", "L", "S">>

\* templates/omc/model_import.mos.template and model_simulate.mos.template:
\* the tokens of each phase, one statement per token group
ImportTemplate == PACKAGE_FOLDER \o <<";">> \o RESULT_FOLDER \o <<";">> \o MODEL_IN_PACKAGE
SimulateTemplate ==
    SIMULATION_BINARY \o <<" ">> \o START_TIME \o <<",">> \o STOP_TIME \o <<",">>
        \o TOLERANCE \o <<",">> \o NUM_INTERVALS

\* The arguments the test case is constructed with, and the directory the
\* process is in at that moment
ArgPackageFolder == <<"/", "p", "k", "g">>
ArgModelInPackage == <<"S", "i", "n", "e">>
ArgResultFolder == <<"/", "r", "e", "s">>
TemplateFolder == <<"/", "t", "p", "l">>
CwdAtConstruction == <<"/", "h", "o", "m", "e">>

\* What the tool prints: the i-th field of the tuple that ends the import
\* output, the line before it, and the output of the simulate run
FieldText(i) ==
    CASE i = 1 -> <<"0", ".", "0">>
      [] i = 2 -> <<"1", ".", "0">>
      [] i = 3 -> <<"1", "e", "-", "0", "6">>
      [] i = 4 -> <<"5", "0", "0">>
      [] i = 5 -> <<"0", ".", "0", "0", "2">>
      [] OTHER -> <<"9">>
HeaderLine == <<"t", "r", "u", "e", "\n">>
SimulateOutput == <<"0", "\n">>
CsvText == <<"t", "i", "m", "e", ",", "y", "\n">>
ForeignText == <<"k", "e", "e", "p">>

(***************************************************************************)
(* The templating universe: files, tokens and values over three            *)
(* characters, "A" and "B" forming the tokens and "x" not occurring in any.*)
(***************************************************************************)
MaxFileLen == 3
MaxItems == 2

RF_Chars == {"A", "B", "x"}
RF_Tokens == {<<"A">>, <<"B">>, <<"B", "B">>}
RF_Values == {<<>>, <<"x">>, <<"B">>, <<"x", "A">>, <<"x", "B", "x">>}

\* All texts over chars of length at most n
TextsUpTo(chars, n) == UNION {[1..m -> chars] : m \in 0..n}

\* All dicts of at most n items with distinct keys
RECURSIVE DictsUpTo(_)
DictsUpTo(n) ==
    IF n = 0 THEN {<<>>}
    ELSE LET smaller == DictsUpTo(n - 1) IN
         smaller \cup {Append(d, <<k, v>>) :
                         d \in {e \in smaller : Len(e) = n - 1},
                         k \in RF_Tokens, v \in RF_Values}

RF_Dicts == {d \in DictsUpTo(MaxItems) :
               \A i, j \in 1..Len(d) : i # j => d[i][1] # d[j][1]}

(***************************************************************************)
(* The tool's output and the answers typed at the prompt                   *)
(***************************************************************************)
MaxParens == 2
MaxFields == 6
MaxNewlines == 2
MaxInvalid == 5

\* The first n fields joined by ","
RECURSIVE JoinFields(_)
JoinFields(n) ==
    IF n = 0 THEN <<>>
    ELSE IF n = 1 THEN FieldText(1)
    ELSE JoinFields(n - 1) \o <<",">> \o FieldText(n)

\* An import output: an optional line, then lp "(", n fields, rp ")" and nl
\* line terminators
GenParams ==
    [header : 0..1, lp : 0..MaxParens, n : 0..MaxFields, rp : 0..MaxParens,
     nl : 0..MaxNewlines]

GenLog(g) ==
    (IF g.header = 1 THEN HeaderLine ELSE <<>>) \o Repeat("(", g.lp) \o JoinFields(g.n)
        \o Repeat(")", g.rp) \o Repeat("\n", g.nl)

\* The tool printed nothing (it was not found, or it crashed at once)
EmptyOutput == [header |-> 0, lp |-> 0, n |-> 0, rp |-> 0, nl |-> 0]

\* The import outputs of the pipeline runs: the tuple of four or five fields
\* after a line of output, ended by one or two line terminators, or nothing
RunOutputs ==
    {g \in GenParams : g.header = 1 /\ g.lp = 1 /\ g.rp = 1 /\ g.n \in {4, 5}
                         /\ g.nl \in {1, 2}}
        \cup {EmptyOutput}

\* What the user may type at a prompt
BadAnswer == <<>>
RawAnswers ==
    {<<"y", "e", "s">>, <<" ", "Y", "E", "S", "\t">>, <<"n", "o">>, <<"N", "o", " ">>,
     <<"y">>}

\* The answers of one cleanup: n empty answers, then first, then "yes" again
\* and again
AnswerStream(n, first) ==
    [i \in 1..(MaxInvalid + 2) |->
        IF i <= n THEN BadAnswer ELSE IF i = n + 1 THEN first ELSE YES]

AnswerStreams == {AnswerStream(n, first) : n \in 0..MaxInvalid, first \in RawAnswers}

(***************************************************************************)
(* The state                                                               *)
(***************************************************************************)
VARIABLES
    self,                   \* the fields __init__ sets once (paths, model, initial_cwd)
    tools,                  \* self.tools
    platform,               \* platform.system()
    result_folder_created,  \* self.result_folder_created
    cwd,                    \* os.getcwd()
    cwd_before,             \* ghost: cwd when _import_and_simulate began
    folder,                 \* the result folder: exists, who created it, its files
    pc,                     \* where compare_result stands ("idle": not running)
    trace,                  \* ghost: the steps of the current run that were done
    last,                   \* ghost: the last operation, its outcome, its prompts
    repl_dict,              \* _run_model's repl_dict
    omc_messages,           \* _run_model's omc_messages
    fields,                 \* (start_time, stop_time, tolerance, num_intervals, interval)
    gen,                    \* ghost: the parameters of the last import output
    rf_orig,      \* the file as it was before _replace_in_file
    rf_dict,      \* the repl_dict passed
    rf_file,      \* the file's contents
    rf_altered,   \* ghost: a later item's match covered an earlier item's value
    rf_pc,        \* "call" before, "written" after _replace_in_file
    ref_data,        \* pd.read_csv(reference_result)
    result_data,     \* pd.read_csv(simulation_result)
    precision,       \* compare_result's precision
    validated_cols,  \* compare_result's validated_cols
    cmp_outcome,     \* how the comparison of lines 143-151 ended
    cmp_pc,          \* "call" before, "done" after the comparison
    ask_answers,     \* what input() returns, call after call
    ask_max,         \* _ask_confirmation's max_asks
    ask_result,      \* what _ask_confirmation returned or raised, and its prompts
    ask_pc           \* "call" before, "done" after _ask_confirmation

wsVars == <<self, tools, platform, result_folder_created, cwd, cwd_before, folder, pc,
            trace, last, repl_dict, omc_messages, fields, gen>>

rfVars == <<rf_orig, rf_dict, rf_file, rf_altered, rf_pc>>

cmpVars == <<ref_data, result_data, precision, validated_cols, cmp_outcome, cmp_pc>>

askVars == <<ask_answers, ask_max, ask_result, ask_pc>>

vars == <<wsVars, rfVars, cmpVars, askVars>>

\* A file that is not there, a file with its contents
NoFile == <<>>
File(text) == <<text>>
\* The files of the result folder: the two scripts (model_import.mos,
\* model_simulate.mos), the log (tool + "_output.txt"), the produced result
\* (model_in_package + "_res.csv") and a file of somebody else's
NoFiles ==
    [model_import_mos |-> NoFile, model_simulate_mos |-> NoFile, tool_output |-> NoFile,
     simulation_result |-> NoFile, foreign_file |-> NoFile]

Absent == [exists |-> FALSE, owner |-> "none", files |-> NoFiles]
OwnFolder == [exists |-> TRUE, owner |-> "self", files |-> NoFiles]

\* A folder somebody else made: their file in it, and possibly the result of
\* an earlier run
ForeignFolders ==
    {[exists |-> TRUE, owner |-> "other",
      files |-> [NoFiles EXCEPT
                   !.foreign_file = File(ForeignText),
                   !.simulation_result = IF stale THEN File(CsvText) ELSE NoFile]] :
        stale \in BOOLEAN}

Platforms == {"Linux", "Windows", "Darwin"}

\* __init__: self.tools
ToolsOf(tool, omc_on_path) ==
    IF tool # "None" THEN <<tool>>
    ELSE IF omc_on_path THEN <<"omc">> ELSE <<>>

\* __init__: the other fields
Constructed ==
    [template_folder_path |-> TemplateFolder,
     package_folder_path  |-> ArgPackageFolder,
     model_in_package     |-> ArgModelInPackage,
     result_folder_path   |-> ArgResultFolder,
     initial_cwd          |-> CwdAtConstruction]

\* Ghost: the record of the last operation: its result, the statement that
\* raised, the prompts printed, and for a cleanup its argument and the answers
Idle(op, result, at, asked) ==
    [op |-> op, result |-> result, at |-> at, asked |-> asked, ask |-> FALSE,
     typed |-> "n/a"]

RF_Unused ==
    /\ rf_orig = <<>>
    /\ rf_dict = <<>>
    /\ rf_file = <<>>
    /\ rf_altered = FALSE
    /\ rf_pc = "unused"

CMP_Unused ==
    /\ ref_data = <<>>
    /\ result_data = <<>>
    /\ precision = 0
    /\ validated_cols = <<>>
    /\ cmp_outcome = <<>>
    /\ cmp_pc = "unused"

ASK_Unused ==
    /\ ask_answers = <<>>
    /\ ask_max = 0
    /\ ask_result = <<>>
    /\ ask_pc = "unused"

Init ==
    /\ self = Constructed
    /\ \E tool \in {"omc", "dymola", "None"}, omc_on_path \in BOOLEAN :
         tools = ToolsOf(tool, omc_on_path)
    /\ platform \in Platforms
    /\ result_folder_created = FALSE
    /\ cwd = CwdAtConstruction
    /\ cwd_before = CwdAtConstruction
    /\ folder \in {Absent} \cup ForeignFolders
    /\ pc = "idle"
    /\ trace = <<>>
    /\ last = Idle("init", "ok", "none", 0)
    /\ repl_dict = <<>>
    /\ omc_messages = <<>>
    /\ fields = <<>>
    /\ gen = EmptyOutput
    /\ RF_Unused
    /\ CMP_Unused
    /\ ASK_Unused

(***************************************************************************)
(* compare_result: _import_and_simulate, _run_model, the comparison        *)
(***************************************************************************)

\* An exception handler around the statement: the error is noted and the run
\* goes on with the simulate run
RaiseSwallowed(exc, at) ==
    /\ pc' = "run_simulate"
    /\ last' = Idle("compare_result", exc, at, 0)
    /\ UNCHANGED <<rfVars, cmpVars, askVars, self, tools, platform, result_folder_created, cwd, cwd_before,
                   folder, trace, gen, repl_dict, omc_messages, fields>>

\* An exception in _run_model: nothing catches it, compare_result ends with
\* it, the locals are gone, and nothing else is touched
Raise(exc, at) ==
    /\ pc' = "idle"
    /\ last' = Idle("compare_result", exc, at, 0)
    /\ repl_dict' = <<>>
    /\ omc_messages' = <<>>
    /\ fields' = <<>>
    /\ UNCHANGED <<rfVars, cmpVars, askVars, self, tools, platform, result_folder_created, cwd, cwd_before,
                   folder, trace, gen>>

\* The step at is done
Done(at, next) ==
    /\ trace' = Append(trace, at)
    /\ pc' = next

\* compare_result calls _import_and_simulate, which creates the result folder
\* when it is not there
Ensure ==
    /\ pc = "idle"
    /\ IF ~folder.exists
       THEN /\ folder' = OwnFolder
            /\ result_folder_created' = TRUE
       ELSE UNCHANGED <<folder, result_folder_created>>
    /\ cwd_before' = cwd
    /\ trace' = <<"ensure">>
    /\ pc' = "chdir"
    /\ last' = Idle("compare_result", "running", "ensure", 0)
    /\ repl_dict' = <<>>
    /\ omc_messages' = <<>>
    /\ fields' = <<>>
    /\ UNCHANGED <<rfVars, cmpVars, askVars, self, tools, platform, cwd, gen>>

\* A chdir that first records the directory it leaves as initial_cwd
ChdirRecordingCwd ==
    /\ pc = "chdir"
    /\ self' = [self EXCEPT !.initial_cwd = cwd]
    /\ cwd' = self.result_folder_path
    /\ Done("chdir", "run_model")
    /\ UNCHANGED <<rfVars, cmpVars, askVars, tools, platform, result_folder_created, cwd_before, folder,
                   last, repl_dict, omc_messages, fields, gen>>

\* pathlib.os.chdir(self.result_folder_path)
Chdir ==
    /\ pc = "chdir"
    /\ cwd' = self.result_folder_path
    /\ Done("chdir", "run_model")
    /\ UNCHANGED <<rfVars, cmpVars, askVars, self, tools, platform, result_folder_created, cwd_before, folder,
                   last, repl_dict, omc_messages, fields, gen>>

\* for tool in self.tools: if tool == "omc": some tool of the list is omc
RunsOmc == \E i \in 1..Len(tools) : tools[i] = "omc"

\* The loop of _run_model with no tool, or with another tool than omc
SkipTool ==
    /\ pc = "run_model"
    /\ ~RunsOmc
    /\ pc' = "chdir_back"
    /\ UNCHANGED <<rfVars, cmpVars, askVars, self, tools, platform, result_folder_created, cwd, cwd_before,
                   folder, trace, last, repl_dict, omc_messages, fields, gen>>

\* The two shutil.copy of the templates into the result folder; a template
\* that is not in the template folder makes the copy raise
CopyTemplates ==
    /\ pc = "run_model"
    /\ RunsOmc
    /\ \/ /\ folder' = [folder EXCEPT !.files.model_import_mos = File(ImportTemplate),
                                      !.files.model_simulate_mos = File(SimulateTemplate)]
          /\ Done("copy", "template_import")
          /\ UNCHANGED <<rfVars, cmpVars, askVars, self, tools, platform, result_folder_created, cwd, cwd_before,
                         last, repl_dict, omc_messages, fields, gen>>
       \/ Raise("FileNotFoundError", "copy")

\* repl_dict of the import script
ImportDict ==
    DictSet(DictSet(DictSet(<<>>, PACKAGE_FOLDER, self.package_folder_path),
                    RESULT_FOLDER, self.result_folder_path),
            MODEL_IN_PACKAGE, self.model_in_package)

\* The import script is templated; open() raises when the file is not there
\* or cannot be opened
TemplateImport ==
    /\ pc = "template_import"
    /\ \/ /\ folder.files.model_import_mos # NoFile
          /\ repl_dict' = ImportDict
          /\ folder' = [folder EXCEPT !.files.model_import_mos =
                          File(_replace_in_file(folder.files.model_import_mos[1], ImportDict))]
          /\ Done("template_import", "run_import")
          /\ UNCHANGED <<rfVars, cmpVars, askVars, self, tools, platform, result_folder_created, cwd, cwd_before,
                         last, omc_messages, fields, gen>>
       \/ Raise("OSError", "template_import")

\* An import run that appends to the log (>>) instead of overwriting it
RunImportAppending ==
    /\ pc = "run_import"
    /\ \E g \in RunOutputs :
         /\ folder' = [folder EXCEPT !.files.tool_output =
                         File((IF @ = NoFile THEN <<>> ELSE @[1]) \o GenLog(g))]
         /\ gen' = g
    /\ Done("run_import", "read_log")
    /\ UNCHANGED <<rfVars, cmpVars, askVars, self, tools, platform, result_folder_created, cwd,
                   cwd_before, last, repl_dict, omc_messages, fields>>

\* os.system(tool_executable + " model_import.mos > omc_output.txt"): the log
\* is overwritten with what the tool prints; os.system raises nothing
RunImport ==
    /\ pc = "run_import"
    /\ \E g \in RunOutputs :
         /\ folder' = [folder EXCEPT !.files.tool_output = File(GenLog(g))]
         /\ gen' = g
    /\ Done("run_import", "read_log")
    /\ UNCHANGED <<rfVars, cmpVars, askVars, self, tools, platform, result_folder_created, cwd, cwd_before, last,
                   repl_dict, omc_messages, fields>>

\* open(tool_output, 'r').readlines(); open() raises when the log is not
\* there or cannot be opened
ReadLog ==
    /\ pc = "read_log"
    /\ \/ /\ folder.files.tool_output # NoFile
          /\ omc_messages' = readlines(folder.files.tool_output[1])
          /\ Done("read_log", "extract")
          /\ UNCHANGED <<rfVars, cmpVars, askVars, self, tools, platform, result_folder_created, cwd, cwd_before,
                         folder, last, repl_dict, fields, gen>>
       \/ Raise("FileNotFoundError", "read_log")

\* The fields of the first line instead of the last
ExtractFieldsFirstLine(messages) ==
    split(rstrip(lstrip(messages[1], {"("}), {")"}), ",")

\* omc_messages[-1].lstrip('(').rstrip(')').split(',')
ExtractFields(messages) ==
    split(rstrip(lstrip(messages[Len(messages)], {"("}), {")"}), ",")

\* (start_time, stop_time, tolerance, num_intervals, interval) = ...
ExtractMetadata ==
    /\ pc = "extract"
    /\ IF omc_messages = <<>> THEN Raise("IndexError", "extract")
       ELSE IF Len(ExtractFields(omc_messages)) # 5 THEN Raise("ValueError", "extract")
       ELSE /\ fields' = ExtractFields(omc_messages)
            /\ Done("extract", "template_simulate")
            /\ UNCHANGED <<rfVars, cmpVars, askVars, self, tools, platform, result_folder_created, cwd, cwd_before,
                           folder, last, repl_dict, omc_messages, gen>>

\* repl_dict of the simulate script: the import items, then the binary (on
\* Windows and Linux only) and four of the five fields
SimulateDict(d, f) ==
    LET bin == IF platform = "Windows"
               THEN DictSet(d, SIMULATION_BINARY, self.model_in_package \o <<".", "e", "x", "e">>)
               ELSE IF platform = "Linux"
               THEN DictSet(d, SIMULATION_BINARY, <<".", "/">> \o self.model_in_package)
               ELSE d
    IN  DictSet(DictSet(DictSet(DictSet(bin, START_TIME, f[1]), STOP_TIME, f[2]),
                        TOLERANCE, f[3]),
                NUM_INTERVALS, f[4])

\* A simulate script templated before the import tool has run
TemplateSimulateEarly ==
    /\ pc = "run_import"
    /\ repl_dict' = SimulateDict(repl_dict, <<FieldText(1), FieldText(2), FieldText(3), FieldText(4)>>)
    /\ folder' = [folder EXCEPT !.files.model_simulate_mos =
                    File(_replace_in_file(SimulateTemplate, repl_dict'))]
    /\ Done("template_simulate", "run_simulate")
    /\ UNCHANGED <<rfVars, cmpVars, askVars, self, tools, platform, result_folder_created, cwd, cwd_before,
                   last, omc_messages, fields, gen>>

\* The simulate script is templated
TemplateSimulate ==
    /\ pc = "template_simulate"
    /\ \/ /\ folder.files.model_simulate_mos # NoFile
          /\ repl_dict' = SimulateDict(repl_dict, fields)
          /\ folder' = [folder EXCEPT !.files.model_simulate_mos =
                          File(_replace_in_file(folder.files.model_simulate_mos[1],
                                                SimulateDict(repl_dict, fields)))]
          /\ Done("template_simulate", "run_simulate")
          /\ UNCHANGED <<rfVars, cmpVars, askVars, self, tools, platform, result_folder_created, cwd, cwd_before,
                         last, omc_messages, fields, gen>>
       \/ Raise("OSError", "template_simulate")

\* os.system(tool_executable + " model_simulate.mos >> omc_output.txt"): the
\* output is appended to the log; the simulation writes its result, or fails
\* and writes none
RunSimulate ==
    /\ pc = "run_simulate"
    /\ \E wrote \in BOOLEAN :
         folder' = [folder EXCEPT
                      !.files.tool_output =
                          File((IF @ = NoFile THEN <<>> ELSE @[1]) \o SimulateOutput),
                      !.files.simulation_result = IF wrote THEN File(CsvText) ELSE @]
    /\ Done("run_simulate", "chdir_back")
    /\ UNCHANGED <<rfVars, cmpVars, askVars, self, tools, platform, result_folder_created, cwd, cwd_before, last,
                   repl_dict, omc_messages, fields, gen>>

\* _run_model returns; pathlib.os.chdir(self.initial_cwd)
ChdirBack ==
    /\ pc = "chdir_back"
    /\ cwd' = self.initial_cwd
    /\ repl_dict' = <<>>
    /\ omc_messages' = <<>>
    /\ fields' = <<>>
    /\ Done("chdir_back", "load")
    /\ UNCHANGED <<rfVars, cmpVars, askVars, self, tools, platform, result_folder_created, cwd_before, folder,
                   last, gen>>

\* The two read_csv and the comparison of the columns
LoadAndCompare ==
    /\ pc = "load"
    /\ \E verdict \in {"passed", "AssertionError"} :
         last' = Idle("compare_result",
                      IF folder.files.simulation_result = NoFile
                      THEN "FileNotFoundError" ELSE verdict,
                      "load", 0)
    /\ Done("load", "idle")
    /\ UNCHANGED <<rfVars, cmpVars, askVars, self, tools, platform, result_folder_created, cwd, cwd_before,
                   folder, repl_dict, omc_messages, fields, gen>>

(***************************************************************************)
(* cleanup                                                                 *)
(***************************************************************************)

\* Ghost: what the user typed, seen apart from the code that reads it: the
\* first of the first DefaultMaxAsks answers that is a yes or a no
Understood(answer) == lower(strip(answer)) \in {YES, NO}

Typed(ask_confirmation, answers) ==
    IF ~ask_confirmation THEN "n/a"
    ELSE IF \E i \in 1..DefaultMaxAsks : Understood(answers[i])
    THEN LET i == CHOOSE j \in 1..DefaultMaxAsks :
                     /\ Understood(answers[j])
                     /\ \A h \in 1..(j - 1) : ~Understood(answers[h])
         IN  IF lower(strip(answers[i])) = YES THEN "yes" ELSE "no"
    ELSE "none"

\* The record of a cleanup call
Cleaned(result, asked, ask_confirmation, typed) ==
    [op |-> "cleanup", result |-> result, at |-> "cleanup", asked |-> asked,
     ask |-> ask_confirmation, typed |-> typed]

\* The branch cleanup takes: whether it calls shutil.rmtree, its result when
\* it does not, and the number of prompts
CleanupBranch(created, ask_confirmation, answers) ==
    IF created
    THEN IF ask_confirmation
         THEN LET do_delete == _ask_confirmation(answers, DefaultMaxAsks) IN
              IF do_delete.answer = "None"
              THEN [delete |-> FALSE, result |-> "ValueError", asked |-> do_delete.asked]
              ELSE IF do_delete.answer = "True"
              THEN [delete |-> TRUE, result |-> "deleted", asked |-> do_delete.asked]
              ELSE [delete |-> FALSE, result |-> "declined", asked |-> do_delete.asked]
         ELSE [delete |-> TRUE, result |-> "deleted", asked |-> 0]
    ELSE [delete |-> FALSE, result |-> "refused", asked |-> 0]

\* A cleanup that forgets the folder once it has removed it
CleanupDoResetting(branch, ask_confirmation, typed) ==
    /\ pc = "idle"
    /\ IF branch.delete
       THEN /\ folder' = Absent
            /\ result_folder_created' = FALSE
            /\ last' = Cleaned(IF folder.exists THEN "deleted" ELSE "FileNotFoundError",
                               branch.asked, ask_confirmation, typed)
       ELSE /\ folder' = folder
            /\ result_folder_created' = result_folder_created
            /\ last' = Cleaned(branch.result, branch.asked, ask_confirmation, typed)
    /\ UNCHANGED <<rfVars, cmpVars, askVars, self, tools, platform, cwd, cwd_before, pc,
                   trace, repl_dict, omc_messages, fields, gen>>

\* cleanup with the branch taken; shutil.rmtree raises when the folder is not
\* there
CleanupDo(branch, ask_confirmation, typed) ==
    /\ pc = "idle"
    /\ IF branch.delete
       THEN /\ folder' = Absent
            /\ last' = Cleaned(IF folder.exists THEN "deleted" ELSE "FileNotFoundError",
                               branch.asked, ask_confirmation, typed)
       ELSE /\ folder' = folder
            /\ last' = Cleaned(branch.result, branch.asked, ask_confirmation, typed)
    /\ UNCHANGED <<rfVars, cmpVars, askVars, self, tools, platform, result_folder_created, cwd, cwd_before, pc,
                   trace, repl_dict, omc_messages, fields, gen>>

\* A cleanup that does not look at result_folder_created
cleanup_unguarded(ask_confirmation, answers) ==
    CleanupDo(CleanupBranch(TRUE, ask_confirmation, answers), ask_confirmation,
              Typed(ask_confirmation, answers))

\* cleanup(ask_confirmation); answers is what the user types at the prompts
cleanup(ask_confirmation, answers) ==
    CleanupDo(CleanupBranch(result_folder_created, ask_confirmation, answers),
              ask_confirmation, Typed(ask_confirmation, answers))

\* A call of cleanup: without confirmation nothing is read
Cleanup ==
    \/ cleanup(FALSE, <<>>)
    \/ \E answers \in AnswerStreams : cleanup(TRUE, answers)

(***************************************************************************)
(* The world outside: somebody makes or removes the result folder between  *)
(* two operations                                                          *)
(***************************************************************************)
ExternalCreate ==
    /\ pc = "idle"
    /\ ~folder.exists
    /\ folder' \in ForeignFolders
    /\ last' = Idle("external", "created", "none", 0)
    /\ UNCHANGED <<rfVars, cmpVars, askVars, self, tools, platform, result_folder_created, cwd, cwd_before, pc,
                   trace, repl_dict, omc_messages, fields, gen>>

ExternalRemove ==
    /\ pc = "idle"
    /\ folder.exists
    /\ folder' = Absent
    /\ last' = Idle("external", "removed", "none", 0)
    /\ UNCHANGED <<rfVars, cmpVars, askVars, self, tools, platform, result_folder_created, cwd, cwd_before, pc,
                   trace, repl_dict, omc_messages, fields, gen>>

Next ==
    \/ Ensure
    \/ Chdir
    \/ SkipTool
    \/ CopyTemplates
    \/ TemplateImport
    \/ RunImport
    \/ ReadLog
    \/ ExtractMetadata
    \/ TemplateSimulate
    \/ RunSimulate
    \/ ChdirBack
    \/ LoadAndCompare
    \/ Cleanup
    \/ ExternalCreate
    \/ ExternalRemove

Spec == Init /\ [][Next]_vars

(***************************************************************************)
(* The metadata extraction on its own: _run_model from the reading of the  *)
(* log to the templating of the simulate script, for every import output   *)
(***************************************************************************)
EX_Init ==
    /\ self = Constructed
    /\ tools = <<"omc">>
    /\ platform \in Platforms
    /\ result_folder_created = TRUE
    /\ cwd = ArgResultFolder
    /\ cwd_before = CwdAtConstruction
    /\ gen \in GenParams
    /\ folder = [OwnFolder EXCEPT
                   !.files.model_import_mos = File(_replace_in_file(ImportTemplate, ImportDict)),
                   !.files.model_simulate_mos = File(SimulateTemplate),
                   !.files.tool_output = File(GenLog(gen))]
    /\ pc = "read_log"
    /\ trace = <<"ensure", "chdir", "copy", "template_import", "run_import">>
    /\ last = Idle("compare_result", "running", "ensure", 0)
    /\ repl_dict = ImportDict
    /\ omc_messages = <<>>
    /\ fields = <<>>
    /\ RF_Unused
    /\ CMP_Unused
    /\ ASK_Unused

EX_Next ==
    \/ ReadLog
    \/ ExtractMetadata
    \/ TemplateSimulate

SpecExtract == EX_Init /\ [][EX_Next]_vars

(***************************************************************************)
(* _replace_in_file on its own                                             *)
(***************************************************************************)
WS_Unused ==
    /\ self = Constructed
    /\ tools = <<"omc">>
    /\ platform = "Linux"
    /\ result_folder_created = FALSE
    /\ cwd = CwdAtConstruction
    /\ cwd_before = CwdAtConstruction
    /\ folder = Absent
    /\ pc = "unused"
    /\ trace = <<>>
    /\ last = Idle("init", "ok", "none", 0)
    /\ repl_dict = <<>>
    /\ omc_messages = <<>>
    /\ fields = <<>>
    /\ gen = EmptyOutput

RF_Init ==
    /\ rf_orig \in TextsUpTo(RF_Chars, MaxFileLen)
    /\ rf_dict \in RF_Dicts
    /\ rf_file = rf_orig
    /\ rf_altered = FALSE
    /\ rf_pc = "call"
    /\ WS_Unused
    /\ CMP_Unused
    /\ ASK_Unused

\* A call of _replace_in_file on the file
ReplaceInFile ==
    /\ rf_pc = "call"
    /\ rf_file' = _replace_in_file(rf_file, rf_dict)
    /\ rf_altered' = ReplaceItems(ReadContents(rf_file), rf_dict, 1).altered
    /\ rf_pc' = "written"
    /\ UNCHANGED <<rf_orig, rf_dict>>
    /\ UNCHANGED <<wsVars, cmpVars, askVars>>

RF_Next == ReplaceInFile

SpecReplace == RF_Init /\ [][RF_Next]_vars

(***************************************************************************)
(* compare_result on its own: the comparison of the columns of the two     *)
(* files. A number is an integer count of units of 10^(-MaxPrecision).     *)
(***************************************************************************)
MaxPrecision == 1
MaxRows == 1

ColumnNames == {"x", "y"}
CellValues == {0, 10, 15}

RECURSIVE Pow10(_)
Pow10(n) == IF n = 0 THEN 1 ELSE 10 * Pow10(n - 1)

\* 10**(-p) in units
TenToMinus(p) == Pow10(MaxPrecision - p)

Abs(a) == IF a < 0 THEN -a ELSE a

\* A closeness test whose threshold is one unit lower
assert_almost_equal_lower(actual, desired, decimal) ==
    /\ Len(actual) = Len(desired)
    /\ \A i \in 1..Len(actual) :
         2 * Abs(desired[i] - actual[i]) < 3 * (TenToMinus(decimal) - 1)

\* np.testing.assert_almost_equal(actual, desired, decimal) on two arrays:
\* it passes when the shapes agree and every
\* abs(desired - actual) < 1.5 * 10**(-decimal)
assert_almost_equal(actual, desired, decimal) ==
    /\ Len(actual) = Len(desired)
    /\ \A i \in 1..Len(actual) :
         2 * Abs(desired[i] - actual[i]) < 3 * TenToMinus(decimal)

\* What pd.read_csv returns: named columns of equally many rows
DataFrames ==
    UNION {[cols -> [1..n -> CellValues]] : cols \in (SUBSET ColumnNames) \ {{}},
                                            n \in 0..MaxRows}

\* The lists a caller passes as validated_cols
ColumnLists ==
    {<<>>} \cup {<<c>> : c \in ColumnNames}
           \cup {l \in {<<c, d>> : c \in ColumnNames, d \in ColumnNames} : l[1] # l[2]}

\* The orders a for loop may take the elements of a set in
OrdersOf(S) ==
    {s \in [1..Cardinality(S) -> S] : \A i, j \in 1..Cardinality(S) : i # j => s[i] # s[j]}

\* A selection that takes the common columns whatever the caller passes
SelectedColumnsCommonOnly(given, ref, res) == OrdersOf(DOMAIN ref \cap DOMAIN res)

\* common_cols = set(ref_data.columns).intersection(set(result_data.columns));
\* if not validated_cols: validated_cols = common_cols
SelectedColumns(given, ref, res) ==
    IF given = <<>> THEN OrdersOf(DOMAIN ref \cap DOMAIN res) ELSE {given}

\* for c in validated_cols: assert_almost_equal(result_data[c].as_matrix(),
\* ref_data[c].as_matrix(), precision); result_data[c] and ref_data[c] raise
\* KeyError for a column the file has not
RECURSIVE CompareColumns(_, _, _, _)
CompareColumns(ref, res, cols, decimal) ==
    IF cols = <<>> THEN [result |-> "passed", column |-> "none"]
    ELSE LET c == Head(cols) IN
         IF c \notin DOMAIN res \/ c \notin DOMAIN ref
         THEN [result |-> "KeyError", column |-> c]
         ELSE IF ~assert_almost_equal(res[c], ref[c], decimal)
         THEN [result |-> "AssertionError", column |-> c]
         ELSE CompareColumns(ref, res, Tail(cols), decimal)

CMP_Init ==
    /\ ref_data \in DataFrames
    /\ result_data \in DataFrames
    /\ precision \in 0..MaxPrecision
    /\ validated_cols \in ColumnLists
    /\ cmp_outcome = [result |-> "none", column |-> "none", compared |-> {}]
    /\ cmp_pc = "call"
    /\ WS_Unused
    /\ RF_Unused
    /\ ASK_Unused

\* Lines 143-153 of compare_result on the two files read
CompareData ==
    /\ cmp_pc = "call"
    /\ \E cols \in SelectedColumns(validated_cols, ref_data, result_data) :
         LET out == CompareColumns(ref_data, result_data, cols, precision) IN
         cmp_outcome' = [result |-> out.result, column |-> out.column,
                         compared |-> {cols[i] : i \in 1..Len(cols)}]
    /\ cmp_pc' = "done"
    /\ UNCHANGED <<ref_data, result_data, precision, validated_cols>>
    /\ UNCHANGED <<wsVars, rfVars, askVars>>

CMP_Next == CompareData

SpecCompare == CMP_Init /\ [][CMP_Next]_vars

(***************************************************************************)
(* _ask_confirmation on its own, for every max_asks                        *)
(***************************************************************************)
MaxAsks == 3

\* What the user may type: MaxAsks + 1 answers, each empty or one of
\* RawAnswers
AskStreams == [1..(MaxAsks + 1) -> RawAnswers \cup {BadAnswer}]

ASK_Init ==
    /\ ask_answers \in AskStreams
    /\ ask_max \in 0..MaxAsks
    /\ ask_result = [answer |-> "none", asked |-> 0]
    /\ ask_pc = "call"
    /\ WS_Unused
    /\ RF_Unused
    /\ CMP_Unused

\* A call of _ask_confirmation(question, max_asks)
AskConfirmation ==
    /\ ask_pc = "call"
    /\ ask_result' = _ask_confirmation(ask_answers, ask_max)
    /\ ask_pc' = "done"
    /\ UNCHANGED <<ask_answers, ask_max>>
    /\ UNCHANGED <<wsVars, rfVars, cmpVars>>

ASK_Next == AskConfirmation

SpecAsk == ASK_Init /\ [][ASK_Next]_vars

(***************************************************************************)
(* Templating: round trip (C8) and re-scanning (C9)                        *)
(***************************************************************************)

\* The map covers the placeholders of the file: every key occurs in it
Covers(orig, d) == \A i \in 1..Len(d) : Contains(orig, d[i][1])

\* Every key is gone from the output and every value occurs in it
RoundTrip(out, d) ==
    \A i \in 1..Len(d) : ~Contains(out, d[i][1]) /\ Contains(out, d[i][2])

\* Token k and value v overlap: some text L \o v \o R holds an occurrence of k
\* that shares a character with v (or v is empty)
Overlap(k, v) ==
    \/ v = <<>>
    \/ Contains(v, k)
    \/ Contains(k, v)
    \/ \E n \in 1..Len(k) :
         /\ n <= Len(v)
         /\ \/ SubSeq(k, Len(k) - n + 1, Len(k)) = SubSeq(v, 1, n)
            \/ SubSeq(k, 1, n) = SubSeq(v, Len(v) - n + 1, Len(v))

\* In the file, the occurrences of different keys share no character
DisjointOccurrences(orig, d) ==
    \A i, j \in 1..Len(d) :
      \A p, q \in 1..Len(orig) :
        (i # j /\ OccursAt(orig, d[i][1], p) /\ OccursAt(orig, d[j][1], q))
          => (p + Len(d[i][1]) <= q \/ q + Len(d[j][1]) <= p)

\* No key overlaps any value, and different keys do not overlap in the file
NoClash(orig, d) ==
    /\ \A i, j \in 1..Len(d) : ~Overlap(d[i][1], d[j][2])
    /\ DisjointOccurrences(orig, d)

\* One left-to-right pass over the original text that replaces every
\* occurrence of a key by its value and never looks at what it wrote
RECURSIVE SinglePass(_, _, _)
SinglePass(s, d, i) ==
    IF i > Len(s) THEN <<>>
    ELSE IF \E n \in 1..Len(d) : OccursAt(s, d[n][1], i)
         THEN LET n == CHOOSE m \in 1..Len(d) :
                          /\ OccursAt(s, d[m][1], i)
                          /\ \A h \in 1..(m - 1) : ~OccursAt(s, d[h][1], i)
              IN  d[n][2] \o SinglePass(s, d, i + Len(d[n][1]))
         ELSE <<s[i]>> \o SinglePass(s, d, i + 1)

\* C8 as stated: for any file and any map covering its placeholders, the
\* written file holds no occurrence of any token and at least one occurrence
\* of every replacement value.
C8_RoundTripAnyMap ==
    (rf_pc = "written" /\ Covers(rf_orig, rf_dict)) => RoundTrip(rf_file, rf_dict)

\* C8 amended: the round trip holds for a covering map when every value is
\* non-empty, no token overlaps a value and the occurrences of different
\* tokens in the file do not overlap.
C8_RoundTripNoClash ==
    (rf_pc = "written" /\ Covers(rf_orig, rf_dict) /\ NoClash(rf_orig, rf_dict))
        => RoundTrip(rf_file, rf_dict)

\* C8 witness: a written file of two covered tokens without clash, one value
\* sharing a character with a token
C8_Witness ==
    /\ rf_pc = "written"
    /\ Len(rf_dict) = 2
    /\ Covers(rf_orig, rf_dict)
    /\ NoClash(rf_orig, rf_dict)
    /\ \E i \in 1..2 : "B" \in {rf_dict[i][2][j] : j \in 1..Len(rf_dict[i][2])}

\* C9 as stated: text inserted as the value of an earlier token is never
\* altered by the replacement of a later token.
C9_NeverRescans == rf_pc = "written" => ~rf_altered

\* C9 amended: every occurrence of each token is replaced in mapping order,
\* each replacement scanning the whole current text; when no token overlaps a
\* value (values non-empty) and different tokens do not overlap in the file,
\* no later replacement alters earlier-inserted text and the result is that of
\* one left-to-right pass over the original file.
C9_SinglePassNoClash ==
    (rf_pc = "written" /\ NoClash(rf_orig, rf_dict))
        => (~rf_altered /\ rf_file = SinglePass(rf_orig, rf_dict, 1))

\* C9 witness: two tokens, both replaced, the file holding the first one twice
C9_Witness ==
    /\ rf_pc = "written"
    /\ Len(rf_dict) = 2
    /\ NoClash(rf_orig, rf_dict)
    /\ Len(MatchFrom(rf_orig, rf_dict[1][1], 1)) = 2
    /\ Contains(rf_orig, rf_dict[2][1])
    /\ ~rf_altered

(***************************************************************************)
(* The result folder: cleanup and the created flag (C1, C2, C3)            *)
(***************************************************************************)

\* C1: while result_folder_created is False, a cleanup, with or without
\* confirmation, removes nothing, asks nothing and leaves the result folder
\* and its files as they were.
C1_CleanupKeepsForeignFolder ==
    [][(last'.op = "cleanup" /\ ~result_folder_created)
          => (folder' = folder /\ last'.asked = 0 /\ last'.result = "refused")]_vars

\* C1 witness: a cleanup without confirmation was refused on a folder that
\* somebody else made, and their file is still in it
C1_Witness ==
    /\ last.op = "cleanup"
    /\ ~last.ask
    /\ last.result = "refused"
    /\ ~result_folder_created
    /\ folder.exists
    /\ folder.files.foreign_file = File(ForeignText)

\* C2: after every ensure step the folder exists and result_folder_created is
\* True exactly when the folder that now exists was created by this instance.
C2_FlagRecordsTruth ==
    [][(pc = "idle" /\ pc' = "chdir")
          => (folder'.exists /\ (result_folder_created' <=> folder'.owner = "self"))]_vars

\* C3: a cleanup of a folder recorded as created by this run: with
\* confirmation the folder is deleted exactly when the first understood
\* answer is a yes, a no leaves it as it was, and with no understood answer
\* among the DefaultMaxAsks read the call fails with ValueError and leaves
\* it as it was; without confirmation it is deleted and nothing is asked.
C3_ConfirmedDeletion ==
    [][(last'.op = "cleanup" /\ result_folder_created)
          => IF ~last'.ask THEN ~folder'.exists /\ last'.asked = 0
             ELSE /\ last'.typed = "yes" => ~folder'.exists
                  /\ last'.typed = "no" => (folder' = folder /\ last'.result = "declined")
                  /\ last'.typed = "none" =>
                       (folder' = folder /\ last'.result = "ValueError"
                          /\ last'.asked = DefaultMaxAsks)
                  /\ (folder.exists /\ ~folder'.exists) => last'.typed = "yes"]_vars

\* C3 witness: the folder of this run was deleted on a yes that came after
\* answers that were not understood
C3_Witness ==
    /\ last.op = "cleanup"
    /\ last.ask
    /\ last.typed = "yes"
    /\ last.asked >= 3
    /\ last.result = "deleted"
    /\ result_folder_created
    /\ ~folder.exists

(***************************************************************************)
(* The pipeline: order, abort, working directory (C4, C5, C10)             *)
(***************************************************************************)
Range(s) == {s[i] : i \in 1..Len(s)}
IsPrefix(p, s) == Len(p) <= Len(s) /\ SubSeq(s, 1, Len(p)) = p

FullOrder ==
    <<"ensure", "chdir", "copy", "template_import", "run_import", "read_log", "extract",
      "template_simulate", "run_simulate", "chdir_back", "load">>
SkipOrder == <<"ensure", "chdir", "chdir_back", "load">>

ImportPhase == {"copy", "template_import", "read_log", "extract"}
Errors == {"FileNotFoundError", "OSError", "IndexError", "ValueError"}

\* The last line of the import output g splits into five fields
FiveFields(g) ==
    LET text == GenLog(g) IN
    /\ text # <<>>
    /\ g.nl <= 1
    /\ Cardinality({i \in 1..Len(text) : text[i] = ","}) = 4

\* C5: when a step of the import phase fails (the copy, the templating of the
\* import script, the reading of the log, the extraction), the run is over
\* with that error as the outcome of compare_result, and in that run the
\* simulate script was not templated, the simulate tool not run and nothing
\* compared; an import output whose last line has not five fields never
\* leads to a simulate run.
C5_ImportFailureAborts ==
    /\ (last.op = "compare_result" /\ last.result \in Errors /\ last.at \in ImportPhase)
          => /\ pc = "idle"
             /\ Range(trace) \cap {"template_simulate", "run_simulate", "load"} = {}
    /\ ("run_import" \in Range(trace) /\ ~FiveFields(gen))
          => Range(trace) \cap {"template_simulate", "run_simulate", "load"} = {}

\* C5 witness: the extraction failed and the run ended there
C5_Witness ==
    /\ pc = "idle"
    /\ last.op = "compare_result"
    /\ last.at = "extract"
    /\ last.result = "ValueError"
    /\ trace = SubSeq(FullOrder, 1, 6)

\* _import_and_simulate has ended: it returned, or an exception left it
ImportAndSimulateEnded ==
    \/ pc = "load"
    \/ pc = "idle" /\ last.op = "compare_result"

\* C10: whenever _import_and_simulate has ended, completed or failed, the
\* working directory is what it was before the step began.
C10_CwdRestored == ImportAndSimulateEnded => cwd = cwd_before

(***************************************************************************)
(* The metadata extraction (C6, C7)                                        *)
(***************************************************************************)
LogText == folder.files.tool_output[1]

\* The last line of a text, read off the text: what follows the last line
\* terminator that is not the last character
FinalLineOf(text) ==
    LET inner == {i \in 1..(Len(text) - 1) : text[i] = "\n"}
        cut == IF inner = {} THEN 0 ELSE CHOOSE i \in inner : \A j \in inner : j <= i
    IN  SubSeq(text, cut + 1, Len(text))

Chomp(line) ==
    IF line # <<>> /\ line[Len(line)] = "\n" THEN SubSeq(line, 1, Len(line) - 1) ELSE line

CommaCount(line) == Cardinality({i \in 1..Len(line) : line[i] = ","})

\* "(" five comma-separated fields ")"
IsParenQuintuple(line) ==
    LET b == Chomp(line) IN
    /\ Len(b) >= 2
    /\ b[1] = "("
    /\ b[Len(b)] = ")"
    /\ CommaCount(b) = 4

ExtractSucceeded == "extract" \in Range(trace)
ExtractFailed == pc = "idle" /\ last.at = "extract"

\* C6 as stated: the extraction succeeds only on a final line that is a
\* parenthesized tuple of five fields.
C6_FailsUnlessParenQuintuple ==
    ExtractSucceeded => (LogText # <<>> /\ IsParenQuintuple(FinalLineOf(LogText)))

\* C6 amended: the extraction succeeds exactly when the last line of the log
\* splits on "," into five fields; with another number of fields it fails
\* with ValueError, on an empty log with IndexError; a missing "(" or ")" is
\* not detected.
C6_FailsUnlessFiveFields ==
    /\ ExtractSucceeded => (LogText # <<>> /\ CommaCount(FinalLineOf(LogText)) = 4)
    /\ ExtractFailed =>
          \/ LogText = <<>> /\ last.result = "IndexError"
          \/ /\ LogText # <<>>
             /\ CommaCount(FinalLineOf(LogText)) # 4
             /\ last.result = "ValueError"

\* C6 witness: a parenthesized tuple of six fields was refused
C6_Witness ==
    /\ ExtractFailed
    /\ last.result = "ValueError"
    /\ gen.n = 6
    /\ gen.lp = 1
    /\ gen.rp = 1
    /\ gen.nl = 0

\* The import output ends with a well-formed quintuple and line terminators
QuintupleOutput(g) == g.lp = 1 /\ g.rp = 1 /\ g.n = 5

\* The simulate script ends with the first four fields in the places of
\* START_TIME, STOP_TIME, TOLERANCE and NUM_INTERVALS and holds none of these
ScriptHasFields ==
    LET script == folder.files.model_simulate_mos[1]
        args == <<" ">> \o FieldText(1) \o <<",">> \o FieldText(2) \o <<",">>
                    \o FieldText(3) \o <<",">> \o FieldText(4)
    IN  /\ Len(script) >= Len(args)
        /\ SubSeq(script, Len(script) - Len(args) + 1, Len(script)) = args
        /\ \A token \in {START_TIME, STOP_TIME, TOLERANCE, NUM_INTERVALS} :
             ~Contains(script, token)

\* C7 as stated: for every log whose last non-empty line is a quintuple, with
\* or without line terminators and blank lines after it, the extraction
\* yields the five fields and the simulate script gets the first four.
C7_LastNonEmptyLine ==
    QuintupleOutput(gen) =>
        /\ ~ExtractFailed
        /\ pc = "template_simulate" => fields = [i \in 1..5 |-> FieldText(i)]
        /\ "template_simulate" \in Range(trace) => ScriptHasFields

\* C7 amended: the extraction takes the last line of the log as readlines
\* gives it, strips "(" at its start and ")" at its very end (none when a line
\* terminator ends it), and splits it on "," into five fields; for a log that
\* ends with the quintuple and at most one line terminator the simulate
\* script gets exactly the first four fields, the fifth keeping ")" and the
\* terminator when there is one; with blank lines after the quintuple the
\* extraction fails.
C7_LastLine ==
    QuintupleOutput(gen) =>
        /\ gen.nl <= 1 =>
             /\ ~ExtractFailed
             /\ pc = "template_simulate" =>
                  fields = [i \in 1..5 |->
                              IF i = 5 /\ gen.nl = 1 THEN FieldText(5) \o <<")", "\n">>
                              ELSE FieldText(i)]
             /\ "template_simulate" \in Range(trace) => ScriptHasFields
        /\ gen.nl >= 2 => ~ExtractSucceeded

\* C7 witness: the simulate script was templated from a log of two lines that
\* ends with a line terminator
C7_Witness ==
    /\ "template_simulate" \in Range(trace)
    /\ QuintupleOutput(gen)
    /\ gen.header = 1
    /\ gen.nl = 1
    /\ ScriptHasFields

(***************************************************************************)
(* The comparison (C11, C12, C13)                                          *)
(***************************************************************************)
CommonColumns == DOMAIN ref_data \cap DOMAIN result_data

\* Column c is in both files and its values are close in the sense of
\* assert_almost_equal
ColumnClose(c) ==
    /\ c \in CommonColumns
    /\ assert_almost_equal(result_data[c], ref_data[c], precision)

\* C11: the compared columns are the caller's list when it is not empty and
\* the common columns of the two files otherwise; the comparison passes
\* exactly when every compared column is close, whatever the other columns
\* hold; with no list and no common column nothing is compared and the
\* comparison passes.
C11_ColumnSelection ==
    cmp_pc = "done" =>
        /\ validated_cols # <<>> => cmp_outcome.compared = Range(validated_cols)
        /\ validated_cols = <<>> => cmp_outcome.compared = CommonColumns
        /\ cmp_outcome.result = "passed" <=> \A c \in cmp_outcome.compared : ColumnClose(c)
        /\ (validated_cols = <<>> /\ CommonColumns = {}) =>
              (cmp_outcome.compared = {} /\ cmp_outcome.result = "passed")

\* C11 witness: the caller listed x alone, both files hold x and y, y differs
\* beyond the threshold, and the comparison passed
C11_Witness ==
    /\ cmp_pc = "done"
    /\ validated_cols = <<"x">>
    /\ CommonColumns = {"x", "y"}
    /\ ~ColumnClose("y")
    /\ cmp_outcome.result = "passed"

\* The number of rows of a data frame
Rows(d) == Len(d[CHOOSE c \in DOMAIN d : TRUE])

\* The cells of the compared columns in which the two files differ
DiffCells ==
    {cell \in cmp_outcome.compared \X (1..Rows(ref_data)) :
        ref_data[cell[1]][cell[2]] # result_data[cell[1]][cell[2]]}

\* C12: when the two files have the same rows and differ in the compared
\* columns in one cell only, by eps in column X, the comparison fails with
\* AssertionError at column X if 10^(-precision) <= eps and passes if
\* 10^(-precision) > eps.
C12_ThresholdTenToMinusP ==
    (/\ cmp_pc = "done"
     /\ cmp_outcome.compared \subseteq CommonColumns
     /\ Rows(ref_data) = Rows(result_data)
     /\ Cardinality(DiffCells) = 1)
        => LET cell == CHOOSE d \in DiffCells : TRUE
               eps == Abs(ref_data[cell[1]][cell[2]] - result_data[cell[1]][cell[2]])
           IN  IF TenToMinus(precision) <= eps
               THEN cmp_outcome.result = "AssertionError" /\ cmp_outcome.column = cell[1]
               ELSE cmp_outcome.result = "passed"

\* C13: comparing a file with an identical file passes for every selection
\* of its columns (the caller's list, or none) and every precision.
C13_Reflexive ==
    (/\ cmp_pc = "done"
     /\ ref_data = result_data
     /\ Range(validated_cols) \subseteq DOMAIN ref_data)
        => cmp_outcome.result = "passed"

\* C13 witness: a file of two columns and a row was compared with itself on
\* a listed column at a precision above 0, and passed
C13_Witness ==
    /\ cmp_pc = "done"
    /\ ref_data = result_data
    /\ DOMAIN ref_data = {"x", "y"}
    /\ Rows(ref_data) = 1
    /\ validated_cols = <<"y">>
    /\ precision > 0
    /\ cmp_outcome.result = "passed"

(***************************************************************************)
(* The tool log (C14)                                                      *)
(***************************************************************************)

\* C14: from the import run to the simulate run the log holds the import
\* output of this run and nothing else, whatever earlier runs left in the
\* folder; after the simulate run it is that import output followed by the
\* simulate output.
C14_LogAccumulates ==
    /\ pc \in {"read_log", "extract", "template_simulate", "run_simulate"}
          => folder.files.tool_output = File(GenLog(gen))
    /\ (pc \in {"chdir_back", "load"} /\ "run_simulate" \in Range(trace))
          => folder.files.tool_output = File(GenLog(gen) \o SimulateOutput)

\* C14 witness: the log is about to be parsed in a folder of this instance
\* in which an earlier run had gone through its simulate phase and written
\* its result, and the log holds the import output of the current run only
C14_Witness ==
    /\ pc = "extract"
    /\ folder.owner = "self"
    /\ folder.files.simulation_result # NoFile
    /\ gen.n = 5
    /\ folder.files.tool_output = File(GenLog(gen))

(***************************************************************************)
(* The fields of the test case (C15, C17, C19)                             *)
(***************************************************************************)

\* C15: no step of compare_result (_import_and_simulate, _run_model, the
\* comparison) and no cleanup changes the template folder path, the package
\* folder path, the model name, the result folder path, initial_cwd or the
\* tool list.
C15_FieldsImmutable == [][self' = self /\ tools' = tools]_vars

\* C15 witness: after a complete run and a cleanup that deleted the folder
\* the fields are those of the construction
C15_Witness ==
    /\ last.op = "cleanup"
    /\ last.result = "deleted"
    /\ trace = FullOrder
    /\ result_folder_created
    /\ self = Constructed
    /\ tools = <<"omc">>

(***************************************************************************)
(* The placeholders of the simulate script (C16)                           *)
(***************************************************************************)
SimulateTokens == {SIMULATION_BINARY, START_TIME, STOP_TIME, TOLERANCE, NUM_INTERVALS}

\* The value repl_dict holds for key, <<>> when it holds none
Lookup(d, key) ==
    IF \E i \in 1..Len(d) : d[i][1] = key
    THEN <<d[CHOOSE i \in 1..Len(d) : d[i][1] = key][2]>>
    ELSE <<>>

\* C16: when the simulate tool is invoked, on every platform, repl_dict holds
\* every token of the simulate template, SIMULATION_BINARY as model.exe on
\* Windows and as ./model elsewhere, and the script holds none of the tokens.
C16_AllPlaceholdersSupplied ==
    pc = "run_simulate" =>
        /\ \A token \in SimulateTokens :
             /\ Lookup(repl_dict, token) # <<>>
             /\ ~Contains(folder.files.model_simulate_mos[1], token)
        /\ Lookup(repl_dict, SIMULATION_BINARY) =
             <<IF platform = "Windows"
               THEN self.model_in_package \o <<".", "e", "x", "e">>
               ELSE <<".", "/">> \o self.model_in_package>>

\* C17: the tool list of every test case is exactly omc, so that whenever
\* compare_result comes to load the produced CSV the import tool and the
\* simulate tool were invoked in that run.
C17_ToolAlwaysInvoked ==
    pc = "load" =>
        /\ tools = <<"omc">>
        /\ {"copy", "template_import", "run_import", "template_simulate", "run_simulate"}
              \subseteq Range(trace)

(***************************************************************************)
(* _ask_confirmation (C18)                                                 *)
(***************************************************************************)

\* The answers among the first max_asks that are a yes or a no
ValidAnswers == {i \in 1..ask_max : Understood(ask_answers[i])}

\* C18: _ask_confirmation reads at most max_asks answers; it stops at the
\* first that is "yes" or "no" once stripped and lower-cased and returns True
\* for yes, False for no, reading no further; it raises ValueError exactly
\* when none of the first max_asks answers is one, max_asks = 0 included.
C18_AskConfirmation ==
    ask_pc = "done" =>
        /\ ask_result.asked <= ask_max
        /\ ask_result.answer = "None" <=> ValidAnswers = {}
        /\ ValidAnswers = {} => ask_result.asked = ask_max
        /\ ValidAnswers # {} =>
             /\ ask_result.asked = Least(ValidAnswers)
             /\ ask_result.answer =
                  IF lower(strip(ask_answers[Least(ValidAnswers)])) = YES THEN "True" ELSE "False"

\* C18 witness: after an empty answer a "No " was taken for a no, and the
\* "yes" typed after it was not read
C18_Witness ==
    /\ ask_pc = "done"
    /\ ask_max = 3
    /\ ask_answers[1] = BadAnswer
    /\ ask_answers[2] = <<"N", "o", " ">>
    /\ ask_answers[3] = YES
    /\ ask_result = [answer |-> "False", asked |-> 2]

(***************************************************************************)
(* The created flag over time (C19)                                        *)
(***************************************************************************)

\* C19: result_folder_created starts False and never goes back to False; it
\* becomes True only in the ensure step, when the folder was absent and has
\* just been created; no cleanup changes it, whatever its branch, so a
\* cleanup called while it is True, also after a cleanup that deleted the
\* folder, is never a refusal.
C19_FlagMonotone ==
    /\ ~result_folder_created
    /\ [][/\ result_folder_created => result_folder_created'
          /\ (~result_folder_created /\ result_folder_created')
                => /\ pc = "idle" /\ pc' = "chdir"
                   /\ ~folder.exists
                   /\ folder' = OwnFolder
          /\ last'.op = "cleanup"
                => /\ result_folder_created' = result_folder_created
                   /\ result_folder_created => last'.result # "refused"]_vars

\* C19 witness: a cleanup after the folder was deleted went for the folder
\* again (rmtree found nothing to remove), the flag still being True
C19_Witness ==
    /\ last.op = "cleanup"
    /\ last.result = "FileNotFoundError"
    /\ result_folder_created
    /\ ~folder.exists

====
